---- MODULE Spec2Model ----
(***************************************************************************)
(* Model of OllamaGeneratorAFE (components/generation/OllamaGeneratorAFE.py)*)
(* : the async generator generate_stream, driven one fragment at a time by *)
(* its consumer, and the message builder prepare_messages.                 *)
(*                                                                         *)
(* Text is modelled as a sequence of tokens (a token is a character or a   *)
(* fixed piece of text), so that joining and concatenation are computed.   *)
(* Python values that come out of json.loads are tagged records.           *)
(***************************************************************************)
EXTENDS Integers, Sequences, FiniteSets, TLC

VARIABLES
    env,          \* os.environ: [OLLAMA_URL, OLLAMA_MODEL], text
    queries,      \* argument queries : list[str]
    context,      \* argument context : list[str]
    conversation, \* argument conversation: [given |-> FALSE] for None, else items
    server,       \* what the transport does with a well-formed request
    callNo,       \* 1 for the first call, 2 for the repeated call
    first,        \* what the first call delivered, once it has ended
    pc,           \* where the generator's frame is
    consumer,     \* "pulling", or "stopped" once the consumer has dropped the iterator
    url,          \* local url
    messages,     \* local messages
    session,      \* aiohttp.ClientSession of this call: "none", "open", "closed"
    response,     \* response of session.post of this call: "none", "open", "closed"
    pos,          \* number of body lines the async for has taken
    posted,       \* requests handed to session.post in this call
    out           \* fragments delivered to the consumer in this call

vars == <<env, queries, context, conversation, server, callNo, first, pc, consumer,
          url, messages, session, response, pos, posted, out>>

inputs == <<env, queries, context, conversation, server>>

(***************************************************************************)
(* Bounds of the model.                                                    *)
(***************************************************************************)
MaxLines == 3
MaxList == 2
MaxHist == 2

(***************************************************************************)
(* Python values.                                                          *)
(***************************************************************************)
Str(s) == [t |-> "str", s |-> s]
Bool(b) == [t |-> "bool", b |-> b]
Null == [t |-> "null"]
Obj(f) == [t |-> "obj", o |-> f]
EmptyDict == Obj(<<>>)

\* Truth value of a Python value, as `if v` / `A if v else B` take it.
Truthy(v) ==
    CASE v.t = "bool" -> v.b
      [] v.t = "str" -> v.s # ""
      [] v.t = "null" -> FALSE
      [] v.t = "obj" -> DOMAIN v.o # {}

\* v.get(key, default): an AttributeError unless v is a dict.
HasGet(v) == v.t = "obj"
Get(v, key, default) == IF key \in DOMAIN v.o THEN v.o[key] ELSE default

(***************************************************************************)
(* Lines of a response body, as response.content hands them over.          *)
(***************************************************************************)
LHel == "{\"message\":{\"content\":\"Hel\"},\"done\":false}\n"
LLo == "{\"message\":{\"content\":\"lo\"},\"done\":false}\n"
LEnd == "{\"message\":{\"content\":\"\"},\"done\":true}\n"
LErr == "{\"error\":\"model not found\"}\n"
LNull == "{\"message\":null,\"done\":false}\n"
LBad == "{\"message\":{\"content\":\"He\n"
LBlank == "\n"

Lines == {LHel, LLo, LEnd, LErr, LNull, LBad, LBlank}

\* line.strip(): what is left of the line without its surrounding whitespace.
Strip(line) ==
    CASE line = LBlank -> ""
      [] line = LHel -> "{\"message\":{\"content\":\"Hel\"},\"done\":false}"
      [] line = LLo -> "{\"message\":{\"content\":\"lo\"},\"done\":false}"
      [] line = LEnd -> "{\"message\":{\"content\":\"\"},\"done\":true}"
      [] line = LErr -> "{\"error\":\"model not found\"}"
      [] line = LNull -> "{\"message\":null,\"done\":false}"
      [] line = LBad -> "{\"message\":{\"content\":\"He"

\* json.loads(line.decode("utf-8")): the value, or a raised JSONDecodeError.
JsonLoads(line) ==
    CASE line = LHel ->
           [ok |-> TRUE,
            value |-> Obj([message |-> Obj([content |-> Str("Hel")]), done |-> Bool(FALSE)])]
      [] line = LLo ->
           [ok |-> TRUE,
            value |-> Obj([message |-> Obj([content |-> Str("lo")]), done |-> Bool(FALSE)])]
      [] line = LEnd ->
           [ok |-> TRUE,
            value |-> Obj([message |-> Obj([content |-> Str("")]), done |-> Bool(TRUE)])]
      [] line = LErr ->
           [ok |-> TRUE, value |-> Obj([error |-> Str("model not found")])]
      [] line = LNull ->
           [ok |-> TRUE, value |-> Obj([message |-> Null, done |-> Bool(FALSE)])]
      [] OTHER -> [ok |-> FALSE]

Fragment(message, finish_reason) ==
    [message |-> message, finish_reason |-> finish_reason]

Raised == [raised |-> TRUE]
Yielded(frag) == [raised |-> FALSE, frag |-> frag]

\* The fragment built from a parsed line, or the AttributeError of a .get on
\* something that is no dict.
DecodeJsonDoneDefaultsTrue(json_data) ==
    IF ~HasGet(json_data) THEN Raised
    ELSE LET m == Get(json_data, "message", EmptyDict)
         IN  IF ~HasGet(m) THEN Raised
             ELSE Yielded(Fragment(Get(m, "content", Str("")),
                                   IF Truthy(Get(json_data, "done", Bool(TRUE)))
                                   THEN "stop" ELSE ""))

DecodeJson(json_data) ==
    IF ~HasGet(json_data) THEN Raised
    ELSE LET m == Get(json_data, "message", EmptyDict)
         IN  IF ~HasGet(m) THEN Raised
             ELSE Yielded(Fragment(Get(m, "content", Str("")),
                                   IF Truthy(Get(json_data, "done", Bool(FALSE)))
                                   THEN "stop" ELSE ""))

\* A non-blank line: parse it, then build its fragment.
NonBlankLineSwallowsError(line) ==
    LET parsed == JsonLoads(line)
    IN  IF parsed.ok THEN DecodeJson(parsed.value) ELSE Yielded(Fragment(Str(""), ""))

NonBlankLine(line) ==
    LET parsed == JsonLoads(line)
    IN  IF parsed.ok THEN DecodeJson(parsed.value) ELSE Raised

\* A blank line: the out-of-band stop fragment.
BlankLineWithoutStop(line) == Yielded(Fragment(Str(""), ""))

BlankLine(line) == Yielded(Fragment(Str(""), "stop"))

\* The body of the async for, for one line.
ProcessLine(line) ==
    IF Strip(line) # "" THEN NonBlankLine(line) ELSE BlankLine(line)

(***************************************************************************)
(* prepare_messages.                                                       *)
(***************************************************************************)
SeqsUpTo(S, n) == UNION {[1..k -> S] : k \in 0..n}

\* sep.join(list)
RECURSIVE JoinNoSeparator(_, _)
JoinNoSeparator(sep, list) ==
    IF list = <<>> THEN <<>>
    ELSE list[1] \o JoinNoSeparator(sep, Tail(list))

RECURSIVE Join(_, _)
Join(sep, list) ==
    IF list = <<>> THEN <<>>
    ELSE IF Len(list) = 1 THEN list[1]
    ELSE list[1] \o sep \o Join(sep, Tail(list))

\* The fixed instruction text, one token.
evaluate_instructor == <<"You serve as a judge tasked with evaluating teachers ...">>

UserContent(user_context, query) ==
    <<"With this provided context: '">> \o user_context
        \o <<"' Please judge this instructor: '">> \o query \o <<"'">>

prepare_messages(qs, ctx, conv) ==
    <<[role |-> "system", content |-> evaluate_instructor]>>
    \o [i \in 1..Len(conv) |-> [role |-> conv[i].type, content |-> conv[i].content]]
    \o <<[role |-> "user",
          content |-> UserContent(Join(<<" ">>, ctx), Join(<<" ">>, qs))]>>

\* conversation = {} when the caller passed None.
ConversationOrEmpty(conv) == IF conv.given THEN conv.items ELSE <<>>

(***************************************************************************)
(* Configuration and transport.                                            *)
(***************************************************************************)
\* os.environ.get(key, "")
EnvGet(e, key) == IF key \in DOMAIN e THEN e[key] ELSE <<>>

BaseUrl == <<"http://localhost:11434">>
ApiPath == <<"/api/chat">>
ModelName == <<"llama3">>

\* The url the first call of a process reads is the configured one; a later
\* call of a process that had stored the extended url would read that instead.
ReadUrlStored ==
    IF callNo = 1 THEN EnvGet(env, "OLLAMA_URL")
    ELSE EnvGet(env, "OLLAMA_URL") \o ApiPath

ReadUrl == EnvGet(env, "OLLAMA_URL")

\* session.post(url, json=data): aiohttp refuses a url without scheme and host
\* (InvalidURL); otherwise the server decides.
Post(u, srv) ==
    IF u = BaseUrl \o ApiPath THEN srv ELSE [kind |-> "fault"]

\* __aexit__ of an `async with`: the resource is released if it was acquired.
ExitWithLeak(h) == h

ExitWith(h) == IF h = "open" THEN "closed" ELSE h

(***************************************************************************)
(* The frame of generate_stream between two suspensions.                   *)
(***************************************************************************)
Frame(p, o, state, s, r) ==
    [pc |-> state, pos |-> p, out |-> o, session |-> s, response |-> r]

\* An exception (or the end of the body) leaves both `async with` blocks.
Unwind(p, o, state, s, r) == Frame(p, o, state, ExitWith(s), ExitWith(r))

\* async for line in response.content, with p lines already taken and o
\* already delivered: up to the next yield, the end of the body, or a raise.
IterateBreakOnBlank(p, o) ==
    LET body == server.body
    IN  IF p = Len(body) \/ (p > 0 /\ Strip(body[p]) = "")
        THEN Unwind(p, o, IF p = Len(body) /\ server.ending = "reset"
                          THEN "errored" ELSE "completed", "open", "open")
        ELSE LET res == ProcessLine(body[p + 1])
             IN  IF res.raised THEN Unwind(p + 1, o, "errored", "open", "open")
                 ELSE Frame(p + 1, Append(o, res.frag), "at_fragment", "open", "open")

IterateNeedsStop(p, o) ==
    LET body == server.body
    IN  IF p = Len(body)
        THEN Unwind(p, o, IF server.ending = "reset"
                             \/ \A i \in 1..Len(o) : o[i].finish_reason # "stop"
                          THEN "errored" ELSE "completed", "open", "open")
        ELSE LET res == ProcessLine(body[p + 1])
             IN  IF res.raised THEN Unwind(p + 1, o, "errored", "open", "open")
                 ELSE Frame(p + 1, Append(o, res.frag), "at_fragment", "open", "open")

Iterate(p, o) ==
    LET body == server.body
    IN  IF p = Len(body)
        THEN Unwind(p, o, IF server.ending = "reset" THEN "errored" ELSE "completed",
                    "open", "open")
        ELSE LET res == ProcessLine(body[p + 1])
             IN  IF res.raised THEN Unwind(p + 1, o, "errored", "open", "open")
                 ELSE Frame(p + 1, Append(o, res.frag), "at_fragment", "open", "open")

\* From `url += "/api/chat"` to the first suspension after the request.
Request(u, o) ==
    LET target == u \o ApiPath
        msgs == prepare_messages(queries, context, ConversationOrEmpty(conversation))
        data == [model |-> EnvGet(env, "OLLAMA_MODEL"), messages |-> msgs]
        answer == Post(target, server)
    IN  [url |-> target, messages |-> msgs,
         posted |-> <<[url |-> target, json |-> data]>>,
         frame |-> IF answer.kind = "response" THEN Iterate(0, o)
                   ELSE Unwind(0, o, "errored", "open", "none")]

(***************************************************************************)
(* Inputs.                                                                 *)
(***************************************************************************)
Texts == {<<>>, <<"a">>, <<"b", " ", "c">>}
HistoryItems == {[type |-> "user", content |-> <<"a">>],
                 [type |-> "system", content |-> <<"b", " ", "c">>]}
Conversations ==
    {[given |-> FALSE, items |-> <<>>]}
    \cup {[given |-> TRUE, items |-> h] : h \in SeqsUpTo(HistoryItems, MaxHist)}

\* OLLAMA_URL set, unset, or set to the empty string.
Envs == {[OLLAMA_URL |-> BaseUrl, OLLAMA_MODEL |-> ModelName],
         [OLLAMA_MODEL |-> ModelName],
         [OLLAMA_URL |-> <<>>, OLLAMA_MODEL |-> ModelName]}

\* The server refuses the connection (no status, no body), or answers with a
\* status and a body of lines that ends with a clean close ("eof") or a broken
\* connection ("reset").
Refused == [kind |-> "refused", status |-> 0, body |-> <<>>, ending |-> "reset"]

Servers ==
    {Refused}
    \cup {[kind |-> "response", status |-> st, body |-> b, ending |-> e] :
            st \in {200, 500}, b \in SeqsUpTo(Lines, MaxLines), e \in {"eof", "reset"}}

NoResult == [ended |-> FALSE, out |-> <<>>, outcome |-> "none"]

\* Arguments of the streaming calls: <<queries, context, conversation>>, one
\* without and one with a conversation.
SampleArguments ==
    {<<(<<(<<"a">>)>>), (<<(<<"b", " ", "c">>)>>), [given |-> FALSE, items |-> <<>>]>>,
     <<(<<(<<"a">>), (<<>>)>>), (<<>>),
       [given |-> TRUE, items |-> <<[type |-> "user", content |-> <<"a">>]>>]>>}

InitCall ==
    /\ callNo = 1
    /\ first = NoResult
    /\ pc = "not_started"
    /\ consumer = "pulling"
    /\ url = <<>>
    /\ messages = <<>>
    /\ session = "none"
    /\ response = "none"
    /\ pos = 0
    /\ posted = <<>>
    /\ out = <<>>

Init ==
    /\ env \in Envs
    /\ \E a \in SampleArguments :
          /\ queries = a[1]
          /\ context = a[2]
          /\ conversation = a[3]
    /\ server \in Servers
    /\ InitCall

InitPrepare ==
    /\ env = [OLLAMA_URL |-> BaseUrl, OLLAMA_MODEL |-> ModelName]
    /\ queries \in SeqsUpTo(Texts, MaxList)
    /\ context \in SeqsUpTo(Texts, MaxList)
    /\ conversation \in Conversations
    /\ server = Refused
    /\ InitCall

(***************************************************************************)
(* The consumer's steps on the generator.                                  *)
(***************************************************************************)
SetFrame(f) ==
    /\ pc' = f.pc
    /\ pos' = f.pos
    /\ out' = f.out
    /\ session' = f.session
    /\ response' = f.response

SetRequest(req) ==
    /\ url' = req.url
    /\ messages' = req.messages
    /\ posted' = posted \o req.posted
    /\ SetFrame(req.frame)

\* First __anext__, no url configured: run to the yield of the message.
StartMissingUrl ==
    /\ pc = "not_started"
    /\ consumer = "pulling"
    /\ ReadUrl = <<>>
    /\ url' = ReadUrl
    /\ out' = Append(out, Fragment(Str("Missing Ollama URL"), "stop"))
    /\ pc' = "at_missing_url"
    /\ UNCHANGED <<inputs, callNo, first, consumer, messages, session, response,
                   pos, posted>>

\* First __anext__, url configured: run to the first suspension after the post.
StartRequest ==
    /\ pc = "not_started"
    /\ consumer = "pulling"
    /\ ReadUrl # <<>>
    /\ SetRequest(Request(ReadUrl, out))
    /\ UNCHANGED <<inputs, callNo, first, consumer>>

\* __anext__ while suspended at the yield of the missing-url message.
ResumeAfterMissingUrl ==
    /\ pc = "at_missing_url"
    /\ consumer = "pulling"
    /\ SetRequest(Request(url, out))
    /\ UNCHANGED <<inputs, callNo, first, consumer>>

\* __anext__ while suspended at a yield inside the async for.
ResumeLoop ==
    /\ pc = "at_fragment"
    /\ consumer = "pulling"
    /\ SetFrame(Iterate(pos, out))
    /\ UNCHANGED <<inputs, callNo, first, consumer, url, messages, posted>>

Suspended == pc \in {"not_started", "at_missing_url", "at_fragment"}

\* The consumer leaves its loop early and drops the iterator.
StopPulling ==
    /\ Suspended
    /\ consumer = "pulling"
    /\ consumer' = "stopped"
    /\ UNCHANGED <<inputs, callNo, first, pc, url, messages, session, response,
                   pos, posted, out>>

\* aclose() of the dropped iterator (the event loop's async-generator
\* finalizer): GeneratorExit is raised at the yield and unwinds the frame.
Finalize ==
    /\ Suspended
    /\ consumer = "stopped"
    /\ SetFrame(Unwind(pos, out, "closed", session, response))
    /\ UNCHANGED <<inputs, callNo, first, consumer, url, messages, posted>>

\* A second, independent call with the same arguments, configuration and server.
CallAgain ==
    /\ callNo = 1
    /\ pc \in {"completed", "errored"}
    /\ callNo' = 2
    /\ first' = [ended |-> TRUE, out |-> out, outcome |-> pc]
    /\ pc' = "not_started"
    /\ consumer' = "pulling"
    /\ url' = <<>>
    /\ messages' = <<>>
    /\ session' = "none"
    /\ response' = "none"
    /\ pos' = 0
    /\ posted' = <<>>
    /\ out' = <<>>
    /\ UNCHANGED inputs

\* prepare_messages applied to the arguments on their own.
Prepare ==
    /\ pc = "not_started"
    /\ messages' = prepare_messages(queries, context, ConversationOrEmpty(conversation))
    /\ pc' = "prepared"
    /\ UNCHANGED <<inputs, callNo, first, consumer, url, session, response, pos,
                   posted, out>>

Next ==
    \/ StartMissingUrl
    \/ StartRequest
    \/ ResumeAfterMissingUrl
    \/ ResumeLoop
    \/ StopPulling
    \/ Finalize

NextRepeat ==
    \/ StartMissingUrl
    \/ StartRequest
    \/ ResumeAfterMissingUrl
    \/ ResumeLoop
    \/ CallAgain

NextPrepare == Prepare

Spec == Init /\ [][Next]_vars

\* The event loop runs the finalizer of a dropped async generator.
FairSpec == Init /\ [][Next]_vars /\ WF_vars(Finalize)

RepeatSpec == Init /\ [][NextRepeat]_vars

PrepareSpec == InitPrepare /\ [][NextPrepare]_vars

(***************************************************************************)
(* What the claims speak of.                                               *)
(***************************************************************************)
UrlMissing == "OLLAMA_URL" \notin DOMAIN env \/ env["OLLAMA_URL"] = <<>>

Streaming == ~UrlMissing /\ server.kind = "response"

IsStop(frag) == frag.finish_reason = "stop"

IsBlank(line) == Strip(line) = ""

ValidJson(line) == ~IsBlank(line) /\ JsonLoads(line).ok

Malformed(line) == ~IsBlank(line) /\ ~JsonLoads(line).ok

\* A JSON object of the protocol's shape: message absent or an object whose
\* content is absent or a string, done absent or a boolean.
ProtocolObject(line) ==
    /\ ValidJson(line)
    /\ LET v == JsonLoads(line).value
       IN  /\ v.t = "obj"
           /\ "message" \in DOMAIN v.o =>
                 /\ v.o.message.t = "obj"
                 /\ "content" \in DOMAIN v.o.message.o => v.o.message.o.content.t = "str"
           /\ "done" \in DOMAIN v.o => v.o.done.t = "bool"

\* message.content of an object line, the empty string if absent.
ContentOf(line) ==
    LET v == JsonLoads(line).value
    IN  IF v.t = "obj" /\ "message" \in DOMAIN v.o
        THEN IF v.o.message.t = "obj" /\ "content" \in DOMAIN v.o.message.o
             THEN v.o.message.o.content ELSE Str("")
        ELSE Str("")

\* done of an object line is true.
DoneOf(line) ==
    LET v == JsonLoads(line).value
    IN  /\ v.t = "obj"
        /\ "done" \in DOMAIN v.o
        /\ v.o.done.t = "bool"
        /\ v.o.done.b

\* The fragment the protocol assigns to a line.
FragmentOf(line) ==
    IF IsBlank(line) THEN [message |-> Str(""), finish_reason |-> "stop"]
    ELSE [message |-> ContentOf(line),
          finish_reason |-> IF DoneOf(line) THEN "stop" ELSE ""]

Released == session # "open" /\ response # "open"

(***************************************************************************)
(* C1: with OLLAMA_URL unset or empty, generate_stream yields exactly one  *)
(* fragment (non-empty text, finish_reason "stop") and ends: no request is *)
(* handed to the HTTP client, and no further fragment or error follows.    *)
(* This is the claim as stated; the code falls through after the yield.    *)
(***************************************************************************)
C1_MissingUrlEndsAfterOneFragment ==
    UrlMissing =>
        /\ posted = <<>>
        /\ pc # "errored"
        /\ Len(out) <= 1
        /\ \A i \in 1..Len(out) :
              /\ IsStop(out[i])
              /\ out[i].message.t = "str"
              /\ out[i].message.s # ""

(***************************************************************************)
(* C2, as stated: for a body of non-blank valid JSON lines, every line     *)
(* taken from the body has produced its fragment (content or "", stop iff  *)
(* done is true), in order.                                                *)
(***************************************************************************)
C2_OneFragmentPerValidJsonLine ==
    (Streaming /\ server.status = 200 /\ server.ending = "eof"
        /\ \A i \in 1..Len(server.body) : ValidJson(server.body[i])) =>
        /\ Len(out) = pos
        /\ \A i \in 1..pos : out[i] = FragmentOf(server.body[i])
        /\ pc = "completed" => pos = Len(server.body)

(***************************************************************************)
(* C2, amended: for a body of non-blank lines that are JSON objects of the *)
(* protocol's shape, every line taken has produced exactly its fragment,   *)
(* in arrival order, and the call completes only with the whole body read; *)
(* no error arises from the lines.                                         *)
(***************************************************************************)
C2_OneFragmentPerProtocolLine ==
    (Streaming /\ \A i \in 1..Len(server.body) : ProtocolObject(server.body[i])) =>
        /\ Len(out) = pos
        /\ \A i \in 1..pos : out[i] = FragmentOf(server.body[i])
        /\ pc = "completed" => pos = Len(server.body)
        /\ pc = "errored" => pos = Len(server.body) /\ server.ending = "reset"

C2_Witness ==
    /\ pc = "completed"
    /\ server.body = <<LHel, LLo, LEnd>>
    /\ out = <<[message |-> Str("Hel"), finish_reason |-> ""],
               [message |-> Str("lo"), finish_reason |-> ""],
               [message |-> Str(""), finish_reason |-> "stop"]>>

(***************************************************************************)
(* C3, as stated: a stream that ended without error has exactly one        *)
(* fragment with finish_reason "stop", and it is the last one.             *)
(***************************************************************************)
C3_ExactlyOneStopAndLast ==
    pc = "completed" =>
        /\ Len(out) >= 1
        /\ \A i \in 1..Len(out) : IsStop(out[i]) <=> i = Len(out)

(***************************************************************************)
(* C3, amended: in a stream that ended without error the fragments with    *)
(* finish_reason "stop" are exactly those of the body's terminal lines (a  *)
(* blank line, or an object with done true), at those lines' positions; so *)
(* there is exactly one and it is last only when the body's one terminal   *)
(* line is its last line.                                                  *)
(***************************************************************************)
C3_StopExactlyAtTerminalLines ==
    pc = "completed" =>
        /\ Len(out) = Len(server.body)
        /\ \A i \in 1..Len(out) :
              IsStop(out[i]) <=> (IsBlank(server.body[i]) \/ DoneOf(server.body[i]))

C3_Witness ==
    /\ pc = "completed"
    /\ server.body = <<LHel, LBlank, LEnd>>
    /\ IsStop(out[2])
    /\ IsStop(out[3])
    /\ ~IsStop(out[1])

(***************************************************************************)
(* C4: a blank line taken from the body has produced the fragment          *)
(* ("", "stop") at its own position, and reading goes on: the later lines  *)
(* produce their fragments after it, in order, and the call completes only *)
(* with the whole body read.                                               *)
(***************************************************************************)
C4_BlankLineYieldsStopAndContinues ==
    \A i \in 1..pos :
        IsBlank(server.body[i]) =>
            /\ Len(out) >= i
            /\ out[i] = [message |-> Str(""), finish_reason |-> "stop"]
            /\ \A k \in (i + 1)..Len(out) : out[k] = FragmentOf(server.body[k])
            /\ pc = "completed" => Len(out) = Len(server.body)
            /\ (pc = "errored" /\ pos < Len(server.body)) => Len(out) = pos - 1

C4_Witness ==
    /\ pc = "completed"
    /\ server.body = <<LHel, LBlank, LLo>>
    /\ out = <<[message |-> Str("Hel"), finish_reason |-> ""],
               [message |-> Str(""), finish_reason |-> "stop"],
               [message |-> Str("lo"), finish_reason |-> ""]>>

(***************************************************************************)
(* C5: a non-blank line that is not valid JSON ends the call in the        *)
(* errored state as soon as it is taken; no fragment is produced for it or *)
(* for a later line, and the fragments of the earlier lines stay delivered *)
(* as they were.                                                           *)
(***************************************************************************)
C5_MalformedLineIsFatal ==
    Streaming =>
        \A e \in 1..Len(server.body) :
            Malformed(server.body[e]) =>
                /\ pos <= e
                /\ Len(out) < e
                /\ pc # "completed"
                /\ pos = e => pc = "errored"
                /\ \A i \in 1..Len(out) : out[i] = FragmentOf(server.body[i])

C5_Witness ==
    /\ pc = "errored"
    /\ server.body = <<LHel, LBad, LLo>>
    /\ pos = 2
    /\ out = <<[message |-> Str("Hel"), finish_reason |-> ""]>>

(***************************************************************************)
(* C6, as stated: when the connection is refused or the server answers     *)
(* with a status outside 2xx, the call ends in the errored state once the  *)
(* request has been made: it never completes normally and delivers no      *)
(* fragment decoded from the body.  The code never looks at the status.    *)
(***************************************************************************)
C6_NonSuccessStatusIsFatal ==
    (~UrlMissing /\ (server.kind = "refused" \/ server.status \notin 200..299)) =>
        /\ pc # "completed"
        /\ out = <<>>
        /\ posted # <<>> => pc = "errored"

RECURSIVE OffsetOf(_, _)
OffsetOf(list, i) ==
    IF i = 1 THEN 0 ELSE OffsetOf(list, i - 1) + Len(list[i - 1]) + 1

\* text is the items of list in order with exactly one space between neighbours.
IsSpaceJoined(text, list) ==
    /\ Len(text) = IF list = <<>> THEN 0 ELSE OffsetOf(list, Len(list) + 1) - 1
    /\ \A i \in 1..Len(list) :
          /\ \A k \in 1..Len(list[i]) : text[OffsetOf(list, i) + k] = list[i][k]
          /\ i < Len(list) => text[OffsetOf(list, i + 1)] = " "

C8_PreparedMessagesShape ==
    pc = "prepared" =>
        LET history == IF conversation.given THEN conversation.items ELSE <<>>
            n == Len(history)
            last == messages[n + 2].content
            lc == Len(Join(<<" ">>, context))
            lq == Len(Join(<<" ">>, queries))
        IN  /\ Len(messages) = n + 2
            /\ messages[1] = [role |-> "system", content |-> evaluate_instructor]
            /\ \A i \in 1..n :
                  /\ messages[i + 1].role = history[i].type
                  /\ messages[i + 1].content = history[i].content
            /\ messages[n + 2].role = "user"
            /\ \E a \in 0..Len(last), b \in 0..Len(last) :
                  /\ Len(last) = a + b + 3
                  /\ last[1] = "With this provided context: '"
                  /\ IsSpaceJoined(SubSeq(last, 2, a + 1), context)
                  /\ last[a + 2] = "' Please judge this instructor: '"
                  /\ IsSpaceJoined(SubSeq(last, a + 3, a + b + 2), queries)
                  /\ last[a + b + 3] = "'"

C8_Witness ==
    /\ pc = "prepared"
    /\ queries = <<(<<"a">>), (<<"b", " ", "c">>)>>
    /\ context = <<(<<"b", " ", "c">>), (<<"a">>)>>
    /\ conversation.given
    /\ Len(conversation.items) = 2
    /\ conversation.items[1] # conversation.items[2]
    /\ Len(messages) = 4
    /\ messages[4].content =
          <<"With this provided context: '", "b", " ", "c", " ", "a",
            "' Please judge this instructor: '", "a", " ", "b", " ", "c", "'">>

(***************************************************************************)
(* C9: for a body of lines that all decode (blank, or objects of the       *)
(* protocol's shape) and a cleanly closed connection, the call never ends  *)
(* errored; with the body exhausted the next step completes it, and a call *)
(* that ended has completed with one fragment per line, whether or not any *)
(* fragment carried finish_reason "stop".                                  *)
(***************************************************************************)
C9_BodyExhaustionCompletes ==
    (Streaming /\ server.ending = "eof"
        /\ \A i \in 1..Len(server.body) :
              IsBlank(server.body[i]) \/ ProtocolObject(server.body[i])) =>
        /\ pc # "errored"
        /\ (pc = "at_fragment" /\ pos = Len(server.body)) =>
              Iterate(pos, out).pc = "completed"
        /\ pc = "completed" => Len(out) = Len(server.body)

C9_Witness ==
    /\ pc = "completed"
    /\ server.ending = "eof"
    /\ Len(out) = 2
    /\ \A i \in 1..Len(out) : ~IsStop(out[i])

====
